---- MODULE Spec2Model ----
(***************************************************************************)
(* The length-prefixed request/response protocol of server.py and          *)
(* client.py: the frame codec, the per-connection handler loop of          *)
(* TCPServer._handle_client, the accept loop, and the interactive session  *)
(* of TCPClient.                                                           *)
(*                                                                         *)
(* A byte is an integer 0..255, a byte string a sequence of bytes, a str   *)
(* a sequence of code points.  Python's None is the value None below.      *)
(***************************************************************************)
EXTENDS Integers, Sequences, FiniteSets, TLC

(* ---------------------------------------------------------------- bounds *)
\* Connections the listener can be offered.
NumConns == 2
\* Frames (whole or cut short) all peers together put on the wire.
MaxFrames == 3
\* Bytes a connection holds that the server has not read yet.
BufSize == 12

Conns == 1..NumConns

(* ------------------------------------------------------ protocol constants *)
HEADER_SIZE == 5
COMMAND_ECHO == 1
COMMAND_REVERSE == 2
COMMAND_QUIT == 3

\* Python's None: no str and no byte string equals it.
None == <<-1>>

Min(a, b) == IF a < b THEN a ELSE b

(* ------------------------------------------------------------ frame codec *)
\* struct.pack('<BI', command, length): the length with its low byte first.
PackLittleEndian(command, length) ==
    << command,
       length % 256,
       (length \div 256) % 256,
       (length \div 65536) % 256,
       (length \div 16777216) % 256 >>

\* struct.pack('>BI', command, length): one byte, then four bytes big-endian.
Pack(command, length) ==
    << command,
       (length \div 16777216) % 256,
       (length \div 65536) % 256,
       (length \div 256) % 256,
       length % 256 >>

\* struct.unpack('>BI', header_data) of a full 5-byte header.
Unpack(header_data) ==
    [ command     |-> header_data[1],
      payload_len |-> header_data[2] * 16777216 + header_data[3] * 65536
                      + header_data[4] * 256 + header_data[5] ]

\* bytes.decode('utf-8') for one- and two-byte sequences (no byte of the model
\* is 0xE0 or above); None stands for the UnicodeDecodeError it raises.
RECURSIVE Utf8Decode(_)
Utf8Decode(b) ==
    IF b = <<>> THEN <<>>
    ELSE IF b[1] < 128
    THEN LET r == Utf8Decode(Tail(b))
         IN  IF r = None THEN None ELSE <<b[1]>> \o r
    ELSE IF b[1] \in 194..223 /\ Len(b) >= 2 /\ b[2] \in 128..191
    THEN LET r == Utf8Decode(SubSeq(b, 3, Len(b)))
         IN  IF r = None THEN None
             ELSE <<(b[1] - 192) * 64 + (b[2] - 128)>> \o r
    ELSE None

\* str.encode('utf-8') for code points below 0x800.
RECURSIVE Utf8Encode(_)
Utf8Encode(s) ==
    IF s = <<>> THEN <<>>
    ELSE IF s[1] < 128 THEN <<s[1]>> \o Utf8Encode(Tail(s))
    ELSE <<192 + (s[1] \div 64), 128 + (s[1] % 64)>> \o Utf8Encode(Tail(s))

\* A REVERSE branch that hands the payload back as it came.
NotReversed(payload) == payload

\* payload[::-1]
Reverse(payload) ==
    [i \in 1..Len(payload) |-> payload[Len(payload) + 1 - i]]

\* _send_message: the bytes handed to sendall.
Message(command, payload) ==
    LET payload_bytes == Utf8Encode(payload)
    IN  Pack(command, Len(payload_bytes)) \o payload_bytes

\* A dispatch that answers QUIT like ECHO.
ProcessAnswersQuit(cmd, text) ==
    IF cmd = COMMAND_REVERSE
    THEN [kind |-> "respond", response_payload |-> Reverse(text)]
    ELSE IF cmd \in {COMMAND_ECHO, COMMAND_QUIT}
    THEN [kind |-> "respond", response_payload |-> text]
    ELSE [kind |-> "continue", response_payload |-> None]

\* A dispatch with the ECHO and REVERSE branches swapped.
ProcessSwapped(cmd, text) ==
    IF cmd = COMMAND_REVERSE THEN [kind |-> "respond", response_payload |-> text]
    ELSE IF cmd = COMMAND_ECHO
    THEN [kind |-> "respond", response_payload |-> Reverse(text)]
    ELSE IF cmd = COMMAND_QUIT THEN [kind |-> "break", response_payload |-> None]
    ELSE [kind |-> "continue", response_payload |-> None]

\* The command dispatch of _handle_client (step 4): what the loop does with a
\* decoded frame, and the response payload when it answers.
Process(cmd, text) ==
    IF cmd = COMMAND_ECHO THEN [kind |-> "respond", response_payload |-> text]
    ELSE IF cmd = COMMAND_REVERSE
    THEN [kind |-> "respond", response_payload |-> Reverse(text)]
    ELSE IF cmd = COMMAND_QUIT THEN [kind |-> "break", response_payload |-> None]
    ELSE [kind |-> "continue", response_payload |-> None]

(* ------------------------------------------------------------------ state *)
VARIABLES
    listening,         \* server_socket is bound and listening
    backlog,           \* connections established and not yet accepted
    hpc,               \* handler c's place in _handle_client ("NONE": no thread)
    sockOpen,          \* handler c's client_socket is open
    data,              \* the bytearray of the _recv_all call in progress
    command,           \* locals of _handle_client (-1 / None: not assigned)
    payload_len,
    payload,
    response_payload,
    exitReason,        \* why handler c left its loop
    rx,                \* bytes on the wire towards the server, per connection
    tx,                \* bytes on the wire towards the peer, per connection
    peer,              \* the peer's end: "idle", "open", "stalled", "closed", "reset"
    awaiting,          \* requests the peer sent and has seen no response to
    nsent,             \* frames the peers have put on the wire
    nIgnored,          \* "Unknown command ... Ignoring." lines logged per handler
    cpc,               \* client session c's place in start_interactive_mode
    csock,             \* client c's client_socket is not None
    cdata,             \* the bytearray of the client's _recv_all in progress
    cpayload_len,      \* payload_len of _receive_message
    response,          \* what _receive_message returned
    gotFrame,          \* the last _receive_message read a complete frame
    creq,              \* command_id and payload of the session's loop
    cexit              \* why session c left its loop

serverVars == <<listening, backlog, hpc, sockOpen, data, command, payload_len, payload,
                response_payload, exitReason, nIgnored>>
wireVars == <<rx, tx, peer>>
harnessVars == <<awaiting, nsent>>
clientVars == <<cpc, csock, cdata, cpayload_len, response, gotFrame, creq, cexit>>
vars == <<serverVars, wireVars, harnessVars, clientVars>>

Init ==
    /\ listening = TRUE
    /\ backlog = {}
    /\ hpc = [c \in Conns |-> "NONE"]
    /\ sockOpen = [c \in Conns |-> FALSE]
    /\ data = [c \in Conns |-> <<>>]
    /\ command = [c \in Conns |-> -1]
    /\ payload_len = [c \in Conns |-> -1]
    /\ payload = [c \in Conns |-> None]
    /\ response_payload = [c \in Conns |-> None]
    /\ exitReason = [c \in Conns |-> "none"]
    /\ nIgnored = [c \in Conns |-> 0]
    /\ rx = [c \in Conns |-> <<>>]
    /\ tx = [c \in Conns |-> <<>>]
    /\ peer = [c \in Conns |-> "idle"]
    /\ awaiting = [c \in Conns |-> <<>>]
    /\ nsent = 0
    /\ cpc = [c \in Conns |-> "INIT"]
    /\ csock = [c \in Conns |-> FALSE]
    /\ cdata = [c \in Conns |-> <<>>]
    /\ cpayload_len = [c \in Conns |-> -1]
    /\ response = [c \in Conns |-> None]
    /\ gotFrame = [c \in Conns |-> FALSE]
    /\ creq = [c \in Conns |-> [command |-> -1, payload |-> None]]
    /\ cexit = [c \in Conns |-> "none"]

(* ----------------------------------------------------------------- server *)
\* An accept loop that joins the thread it started before it accepts again.
AcceptAfterJoin(c) ==
    /\ listening
    /\ c \in backlog
    /\ \A d \in Conns : hpc[d] \in {"NONE", "CLOSED"}
    /\ backlog' = backlog \ {c}
    /\ hpc' = [hpc EXCEPT ![c] = "AWAITING_HEADER"]
    /\ sockOpen' = [sockOpen EXCEPT ![c] = TRUE]
    /\ UNCHANGED <<listening, data, command, payload_len, payload,
                   response_payload, exitReason, nIgnored>>
    /\ UNCHANGED <<wireVars, harnessVars, clientVars>>

\* _accept_connections: accept() returns connection c, a daemon thread is
\* started on _handle_client, and the loop is back at accept().
Accept(c) ==
    /\ listening
    /\ c \in backlog
    /\ backlog' = backlog \ {c}
    /\ hpc' = [hpc EXCEPT ![c] = "AWAITING_HEADER"]
    /\ sockOpen' = [sockOpen EXCEPT ![c] = TRUE]
    /\ UNCHANGED <<listening, data, command, payload_len, payload,
                   response_payload, exitReason, nIgnored>>
    /\ UNCHANGED <<wireVars, harnessVars, clientVars>>

\* The locals of one loop iteration are dead once the iteration ends: each is
\* assigned again before it is read.
ResetLocals(c) ==
    /\ data' = [data EXCEPT ![c] = <<>>]
    /\ command' = [command EXCEPT ![c] = -1]
    /\ payload_len' = [payload_len EXCEPT ![c] = -1]
    /\ payload' = [payload EXCEPT ![c] = None]
    /\ response_payload' = [response_payload EXCEPT ![c] = None]

\* A handler whose finally clause closes every accepted socket, as it would
\* with the socket kept in an attribute the handlers share.
LeaveLoopClosesAll(c, why) ==
    /\ hpc' = [hpc EXCEPT ![c] = "CLOSED"]
    /\ sockOpen' = [d \in Conns |-> FALSE]
    /\ exitReason' = [exitReason EXCEPT ![c] = why]
    /\ ResetLocals(c)

\* A handler that leaves its loop without the finally clause: the thread ends
\* and client_socket stays open.
LeaveLoopKeepsSocket(c, why) ==
    /\ hpc' = [hpc EXCEPT ![c] = "CLOSED"]
    /\ exitReason' = [exitReason EXCEPT ![c] = why]
    /\ ResetLocals(c)
    /\ UNCHANGED sockOpen

\* Leaving the loop by break or by an exception: the finally clause closes
\* client_socket, and the thread ends.
LeaveLoop(c, why) ==
    /\ hpc' = [hpc EXCEPT ![c] = "CLOSED"]
    /\ sockOpen' = [sockOpen EXCEPT ![c] = FALSE]
    /\ exitReason' = [exitReason EXCEPT ![c] = why]
    /\ ResetLocals(c)

\* A _recv_all without the "if not packet" test: on a closed stream it asks
\* for the missing bytes again and again.
RecvHeaderSpins(c) ==
    /\ hpc[c] = "AWAITING_HEADER"
    /\ rx[c] # <<>>
    /\ peer[c] # "reset"
    /\ UNCHANGED <<listening, backlog, nIgnored, tx, peer, harnessVars, clientVars>>
    /\ \E k \in 1..Min(HEADER_SIZE - Len(data[c]), Len(rx[c])) :
            LET header_data == data[c] \o SubSeq(rx[c], 1, k)
                h == Unpack(header_data)
            IN  /\ rx' = [rx EXCEPT ![c] = SubSeq(rx[c], k + 1, Len(rx[c]))]
                /\ UNCHANGED <<sockOpen, exitReason, response_payload>>
                /\ IF Len(header_data) < HEADER_SIZE
                   THEN /\ data' = [data EXCEPT ![c] = header_data]
                        /\ UNCHANGED <<hpc, command, payload_len, payload>>
                   ELSE /\ data' = [data EXCEPT ![c] = <<>>]
                        /\ command' = [command EXCEPT ![c] = h.command]
                        /\ IF h.payload_len > 0
                           THEN /\ hpc' = [hpc EXCEPT ![c] = "AWAITING_PAYLOAD"]
                                /\ payload_len' = [payload_len EXCEPT ![c] = h.payload_len]
                                /\ UNCHANGED payload
                           ELSE /\ hpc' = [hpc EXCEPT ![c] = "DISPATCHING"]
                                /\ payload' = [payload EXCEPT ![c] = <<>>]
                                /\ UNCHANGED payload_len

\* A loop that looks at the command before it reads the payload, and leaves
\* the payload of an unknown command on the wire.
RecvHeaderSkipsUnknownPayload(c) ==
    /\ hpc[c] = "AWAITING_HEADER"
    /\ UNCHANGED <<listening, backlog, nIgnored, tx, peer, harnessVars, clientVars>>
    /\ IF peer[c] = "reset"
       THEN \* recv raises ConnectionResetError
            /\ LeaveLoop(c, "ConnectionResetError")
            /\ rx' = [rx EXCEPT ![c] = <<>>]
       ELSE IF rx[c] = <<>>
       THEN \* recv returns b'' once the peer has closed; until then it blocks
            /\ peer[c] = "closed"
            /\ LeaveLoop(c, "disconnect_header")
            /\ UNCHANGED rx
       ELSE \E k \in 1..Min(HEADER_SIZE - Len(data[c]), Len(rx[c])) :
            LET header_data == data[c] \o SubSeq(rx[c], 1, k)
                h == Unpack(header_data)
            IN  /\ rx' = [rx EXCEPT ![c] = SubSeq(rx[c], k + 1, Len(rx[c]))]
                /\ UNCHANGED <<sockOpen, exitReason, response_payload>>
                /\ IF Len(header_data) < HEADER_SIZE
                   THEN /\ data' = [data EXCEPT ![c] = header_data]
                        /\ UNCHANGED <<hpc, command, payload_len, payload>>
                   ELSE /\ data' = [data EXCEPT ![c] = <<>>]
                        /\ command' = [command EXCEPT ![c] = h.command]
                        /\ IF /\ h.payload_len > 0
                              /\ h.command \in {COMMAND_ECHO, COMMAND_REVERSE, COMMAND_QUIT}
                           THEN /\ hpc' = [hpc EXCEPT ![c] = "AWAITING_PAYLOAD"]
                                /\ payload_len' = [payload_len EXCEPT ![c] = h.payload_len]
                                /\ UNCHANGED payload
                           ELSE /\ hpc' = [hpc EXCEPT ![c] = "DISPATCHING"]
                                /\ payload' = [payload EXCEPT ![c] = <<>>]
                                /\ UNCHANGED payload_len

\* What one sock.recv(n - len(data)) does to the handler in AWAITING_HEADER.
RecvHeader(c) ==
    /\ hpc[c] = "AWAITING_HEADER"
    /\ UNCHANGED <<listening, backlog, nIgnored, tx, peer, harnessVars, clientVars>>
    /\ IF peer[c] = "reset"
       THEN \* recv raises ConnectionResetError
            /\ LeaveLoop(c, "ConnectionResetError")
            /\ rx' = [rx EXCEPT ![c] = <<>>]
       ELSE IF rx[c] = <<>>
       THEN \* recv returns b'' once the peer has closed; until then it blocks
            /\ peer[c] = "closed"
            /\ LeaveLoop(c, "disconnect_header")
            /\ UNCHANGED rx
       ELSE \E k \in 1..Min(HEADER_SIZE - Len(data[c]), Len(rx[c])) :
            LET header_data == data[c] \o SubSeq(rx[c], 1, k)
                h == Unpack(header_data)
            IN  /\ rx' = [rx EXCEPT ![c] = SubSeq(rx[c], k + 1, Len(rx[c]))]
                /\ UNCHANGED <<sockOpen, exitReason, response_payload>>
                /\ IF Len(header_data) < HEADER_SIZE
                   THEN /\ data' = [data EXCEPT ![c] = header_data]
                        /\ UNCHANGED <<hpc, command, payload_len, payload>>
                   ELSE /\ data' = [data EXCEPT ![c] = <<>>]
                        /\ command' = [command EXCEPT ![c] = h.command]
                        /\ IF h.payload_len > 0
                           THEN /\ hpc' = [hpc EXCEPT ![c] = "AWAITING_PAYLOAD"]
                                /\ payload_len' = [payload_len EXCEPT ![c] = h.payload_len]
                                /\ UNCHANGED payload
                           ELSE /\ hpc' = [hpc EXCEPT ![c] = "DISPATCHING"]
                                /\ payload' = [payload EXCEPT ![c] = <<>>]
                                /\ UNCHANGED payload_len

\* What one sock.recv(n - len(data)) does to the handler in AWAITING_PAYLOAD;
\* the full payload is decoded as UTF-8.
RecvPayload(c) ==
    /\ hpc[c] = "AWAITING_PAYLOAD"
    /\ UNCHANGED <<listening, backlog, nIgnored, tx, peer, harnessVars, clientVars>>
    /\ IF peer[c] = "reset"
       THEN /\ LeaveLoop(c, "ConnectionResetError")
            /\ rx' = [rx EXCEPT ![c] = <<>>]
       ELSE IF rx[c] = <<>>
       THEN /\ peer[c] = "closed"
            /\ LeaveLoop(c, "disconnect_payload")
            /\ UNCHANGED rx
       ELSE \E k \in 1..Min(payload_len[c] - Len(data[c]), Len(rx[c])) :
            LET payload_data == data[c] \o SubSeq(rx[c], 1, k)
                text == Utf8Decode(payload_data)
            IN  IF Len(payload_data) < payload_len[c]
                THEN /\ data' = [data EXCEPT ![c] = payload_data]
                     /\ rx' = [rx EXCEPT ![c] = SubSeq(rx[c], k + 1, Len(rx[c]))]
                     /\ UNCHANGED <<hpc, sockOpen, exitReason, command,
                                    payload_len, payload, response_payload>>
                ELSE IF text = None
                THEN \* decode raises; "except Exception" and finally
                     /\ LeaveLoop(c, "UnicodeDecodeError")
                     /\ rx' = [rx EXCEPT ![c] = <<>>]
                ELSE /\ rx' = [rx EXCEPT ![c] = SubSeq(rx[c], k + 1, Len(rx[c]))]
                     /\ hpc' = [hpc EXCEPT ![c] = "DISPATCHING"]
                     /\ data' = [data EXCEPT ![c] = <<>>]
                     /\ payload_len' = [payload_len EXCEPT ![c] = -1]
                     /\ payload' = [payload EXCEPT ![c] = text]
                     /\ UNCHANGED <<sockOpen, exitReason, command, response_payload>>

\* A loop that goes back to the header read with the response unsent.
DispatchNoSend(c) ==
    /\ hpc[c] = "DISPATCHING"
    /\ UNCHANGED <<listening, backlog, tx, peer, harnessVars, clientVars>>
    /\ IF Process(command[c], payload[c]).kind = "break"
       THEN /\ LeaveLoop(c, "quit")
            /\ rx' = [rx EXCEPT ![c] = <<>>]
            /\ UNCHANGED nIgnored
       ELSE /\ hpc' = [hpc EXCEPT ![c] = "AWAITING_HEADER"]
            /\ ResetLocals(c)
            /\ UNCHANGED <<sockOpen, exitReason, rx, nIgnored>>

\* Step 4 of the loop: the if/elif chain on command.
Dispatch(c) ==
    /\ hpc[c] = "DISPATCHING"
    /\ UNCHANGED <<listening, backlog, tx, peer, harnessVars, clientVars>>
    /\ LET p == Process(command[c], payload[c])
       IN  IF p.kind = "respond"
           THEN /\ hpc' = [hpc EXCEPT ![c] = "RESPONDING"]
                /\ response_payload' = [response_payload EXCEPT ![c] = p.response_payload]
                /\ command' = [command EXCEPT ![c] = -1]
                /\ payload' = [payload EXCEPT ![c] = None]
                /\ UNCHANGED <<sockOpen, exitReason, data, payload_len, nIgnored, rx>>
           ELSE IF p.kind = "break"
           THEN /\ LeaveLoop(c, "quit")
                /\ rx' = [rx EXCEPT ![c] = <<>>]
                /\ UNCHANGED nIgnored
           ELSE /\ hpc' = [hpc EXCEPT ![c] = "AWAITING_HEADER"]
                /\ nIgnored' = [nIgnored EXCEPT ![c] = @ + 1]
                /\ ResetLocals(c)
                /\ UNCHANGED <<sockOpen, exitReason, rx>>

\* A handler that sends on whichever accepted socket is open, as it would with
\* the socket kept in state shared by the handlers.
RespondOnAnySocket(c) ==
    /\ hpc[c] = "RESPONDING"
    /\ UNCHANGED <<listening, backlog, nIgnored, peer, harnessVars, clientVars>>
    /\ \E d \in Conns :
          /\ sockOpen[d]
          /\ tx' = [tx EXCEPT ![d] = @ \o Message(COMMAND_ECHO, response_payload[c])]
    /\ hpc' = [hpc EXCEPT ![c] = "AWAITING_HEADER"]
    /\ ResetLocals(c)
    /\ UNCHANGED <<sockOpen, exitReason, rx>>

\* A send that goes through only once the peer has read every earlier
\* response, as with no buffer between the two ends.
RespondWaitsForReader(c) ==
    /\ hpc[c] = "RESPONDING"
    /\ UNCHANGED <<listening, backlog, nIgnored, peer, harnessVars, clientVars>>
    /\ \/ /\ peer[c] \in {"open", "stalled", "closed"}
          /\ tx[c] = <<>>
          /\ tx' = [tx EXCEPT ![c] = @ \o Message(COMMAND_ECHO, response_payload[c])]
          /\ hpc' = [hpc EXCEPT ![c] = "AWAITING_HEADER"]
          /\ ResetLocals(c)
          /\ UNCHANGED <<sockOpen, exitReason, rx>>
       \/ /\ peer[c] \in {"closed", "reset"}
          /\ LeaveLoop(c, IF peer[c] = "reset" THEN "ConnectionResetError"
                          ELSE "BrokenPipeError")
          /\ rx' = [rx EXCEPT ![c] = <<>>]
          /\ UNCHANGED tx

\* Step 5: _send_message(client_socket, COMMAND_ECHO, response_payload).
\* sendall to a peer that is gone raises; to a peer that has only just closed
\* it may still succeed.
Respond(c) ==
    /\ hpc[c] = "RESPONDING"
    /\ UNCHANGED <<listening, backlog, nIgnored, peer, harnessVars, clientVars>>
    /\ \/ /\ peer[c] \in {"open", "stalled", "closed"}
          /\ tx' = [tx EXCEPT ![c] = @ \o Message(COMMAND_ECHO, response_payload[c])]
          /\ hpc' = [hpc EXCEPT ![c] = "AWAITING_HEADER"]
          /\ ResetLocals(c)
          /\ UNCHANGED <<sockOpen, exitReason, rx>>
       \/ /\ peer[c] \in {"closed", "reset"}
          /\ LeaveLoop(c, IF peer[c] = "reset" THEN "ConnectionResetError"
                          ELSE "BrokenPipeError")
          /\ rx' = [rx EXCEPT ![c] = <<>>]
          /\ UNCHANGED tx

\* KeyboardInterrupt in the accept loop: "Server shutting down.", start()'s
\* finally closes server_socket, the process ends and takes its daemon
\* threads and their sockets with it.
ServerShutdown ==
    /\ listening
    /\ listening' = FALSE
    /\ backlog' = {}
    /\ hpc' = [c \in Conns |-> IF hpc[c] = "NONE" /\ c \notin backlog THEN "NONE"
                                ELSE IF hpc[c] = "CLOSED" THEN "CLOSED"
                                ELSE "KILLED"]
    /\ sockOpen' = [c \in Conns |-> FALSE]
    /\ data' = [c \in Conns |-> <<>>]
    /\ command' = [c \in Conns |-> -1]
    /\ payload_len' = [c \in Conns |-> -1]
    /\ payload' = [c \in Conns |-> None]
    /\ response_payload' = [c \in Conns |-> None]
    /\ rx' = [c \in Conns |-> <<>>]
    /\ UNCHANGED <<exitReason, nIgnored, tx, peer, harnessVars, clientVars>>

\* The server's end of connection c is gone: its handler closed the socket,
\* or the process ended.
ServerGone(c) == hpc[c] \in {"CLOSED", "KILLED"}

(* ------------------------------------------------------------------ peers *)
\* What the peers of the server put on the wire: the three commands and an
\* unknown one, each with no payload, ASCII text ("ab"), a two-byte character
\* (U+00E9) or bytes that are no UTF-8 (a lone continuation byte).
Commands == {COMMAND_ECHO, COMMAND_REVERSE, COMMAND_QUIT, 99}
Payloads == {<<>>, <<97, 98>>, <<195, 169>>, <<169>>}
Frames == [command : Commands, bytes : Payloads]

Wire(f) == Pack(f.command, Len(f.bytes)) \o f.bytes

\* The protocol answers ECHO and REVERSE requests that carry text.
ExpectsResponse(f) ==
    f.command \in {COMMAND_ECHO, COMMAND_REVERSE} /\ Utf8Decode(f.bytes) # None

\* The connection is established; it waits in the listen queue.
PeerConnect(c) ==
    /\ listening
    /\ peer[c] = "idle"
    /\ peer' = [peer EXCEPT ![c] = "open"]
    /\ backlog' = backlog \cup {c}
    /\ UNCHANGED <<listening, hpc, sockOpen, data, command, payload_len,
                   payload, response_payload, exitReason, nIgnored>>
    /\ UNCHANGED <<rx, tx, harnessVars, clientVars>>

\* The peer sends one whole frame, whatever it has received so far.
PeerSend(c, f) ==
    /\ peer[c] = "open"
    /\ sockOpen[c]
    /\ nsent < MaxFrames
    /\ Len(rx[c]) + Len(Wire(f)) <= BufSize
    /\ nsent' = nsent + 1
    /\ rx' = [rx EXCEPT ![c] = @ \o Wire(f)]
    /\ awaiting' = [awaiting EXCEPT ![c] = IF ExpectsResponse(f) THEN Append(@, f) ELSE @]
    /\ UNCHANGED <<serverVars, tx, peer, clientVars>>

\* The peer sends the first k bytes of a frame and then nothing more.
PeerSendPartial(c, f, k) ==
    /\ peer[c] = "open"
    /\ sockOpen[c]
    /\ nsent < MaxFrames
    /\ Len(rx[c]) + k <= BufSize
    /\ k \in 1..(Len(Wire(f)) - 1)
    /\ nsent' = nsent + 1
    /\ rx' = [rx EXCEPT ![c] = @ \o SubSeq(Wire(f), 1, k)]
    /\ peer' = [peer EXCEPT ![c] = "stalled"]
    /\ UNCHANGED <<serverVars, tx, awaiting, clientVars>>

\* The peer closes its end: the server reads what is on the wire, then b''.
PeerClose(c) ==
    /\ peer[c] \in {"open", "stalled"}
    /\ peer' = [peer EXCEPT ![c] = "closed"]
    /\ UNCHANGED <<serverVars, rx, tx, harnessVars, clientVars>>

\* The peer aborts the connection: the server's next recv or send raises.
PeerReset(c) ==
    /\ peer[c] \in {"open", "stalled"}
    /\ peer' = [peer EXCEPT ![c] = "reset"]
    /\ rx' = [rx EXCEPT ![c] = <<>>]
    /\ UNCHANGED <<serverVars, tx, harnessVars, clientVars>>

\* The first frame on the wire towards the peer, when all of it is there.
HasFrame(stream) ==
    /\ Len(stream) >= HEADER_SIZE
    /\ Len(stream) >= HEADER_SIZE + Unpack(SubSeq(stream, 1, HEADER_SIZE)).payload_len
FirstFrame(stream) ==
    SubSeq(stream, 1, HEADER_SIZE + Unpack(SubSeq(stream, 1, HEADER_SIZE)).payload_len)
AfterFirstFrame(stream) ==
    SubSeq(stream, Len(FirstFrame(stream)) + 1, Len(stream))

\* The peer takes one response frame off the wire.
PeerRecv(c) ==
    /\ peer[c] \in {"open", "stalled"}
    /\ awaiting[c] # <<>>
    /\ HasFrame(tx[c])
    /\ tx' = [tx EXCEPT ![c] = AfterFirstFrame(@)]
    /\ awaiting' = [awaiting EXCEPT ![c] = Tail(@)]
    /\ UNCHANGED <<serverVars, rx, peer, nsent, clientVars>>

(* ----------------------------------------------------------------- client *)
\* The text a user types after echo or rev: nothing, "ab", U+00E9.
Texts == {<<>>, <<97, 98>>, <<233>>}

\* "if response:" holds for a str that is not empty; not for None, not for "".
Truthy(r) == r # None /\ r # <<>>

\* A _receive_message that takes a zero-length payload for no message.
ZeroLengthAsNone == None

\* What _receive_message returns for a frame whose payload_len is 0.
ZeroLengthResult == <<>>

\* TCPClient.connect: the connection is established (it waits in the listen
\* queue of the server), and the session is at its prompt.
ClientConnect(c) ==
    /\ listening
    /\ cpc[c] = "INIT"
    /\ peer[c] = "idle"
    /\ peer' = [peer EXCEPT ![c] = "open"]
    /\ backlog' = backlog \cup {c}
    /\ cpc' = [cpc EXCEPT ![c] = "PROMPT"]
    /\ csock' = [csock EXCEPT ![c] = TRUE]
    /\ UNCHANGED <<listening, hpc, sockOpen, data, command, payload_len,
                   payload, response_payload, exitReason, nIgnored>>
    /\ UNCHANGED <<rx, tx, harnessVars, cdata, cpayload_len, response, gotFrame,
                   creq, cexit>>

\* close(): the socket is closed and client_socket set to None.
ClientClose(c, why) ==
    /\ cpc' = [cpc EXCEPT ![c] = "DONE"]
    /\ csock' = [csock EXCEPT ![c] = FALSE]
    /\ peer' = [peer EXCEPT ![c] = "closed"]
    /\ cexit' = [cexit EXCEPT ![c] = why]
    /\ cdata' = [cdata EXCEPT ![c] = <<>>]
    /\ cpayload_len' = [cpayload_len EXCEPT ![c] = -1]

\* A loop that sends the request and prompts again without reading a response.
UserRequestNoWait(c, cmd, text) ==
    /\ cpc[c] = "PROMPT"
    /\ cmd \in {COMMAND_ECHO, COMMAND_REVERSE}
    /\ ~ServerGone(c)
    /\ creq' = [creq EXCEPT ![c] = [command |-> cmd, payload |-> text]]
    /\ rx' = [rx EXCEPT ![c] = @ \o Message(cmd, text)]
    /\ awaiting' = [awaiting EXCEPT ![c] =
                       Append(@, [command |-> cmd, bytes |-> Utf8Encode(text)])]
    /\ UNCHANGED <<serverVars, tx, peer, nsent, cpc, csock, cdata, cpayload_len,
                   response, gotFrame, cexit>>

\* The user types "echo <text>" or "rev <text>": the request is sent with
\* _send_message and the session enters _receive_message.  Once the server has
\* closed the connection, sendall either raises socket.error (_send_message
\* closes the socket, and the recv that follows on client_socket = None raises)
\* or is accepted by the local stack and the bytes are lost.
UserRequest(c, cmd, text) ==
    /\ cpc[c] = "PROMPT"
    /\ cmd \in {COMMAND_ECHO, COMMAND_REVERSE}
    /\ creq' = [creq EXCEPT ![c] = [command |-> cmd, payload |-> text]]
    /\ response' = [response EXCEPT ![c] = None]
    /\ gotFrame' = [gotFrame EXCEPT ![c] = FALSE]
    /\ UNCHANGED <<serverVars, tx, nsent>>
    /\ \E raises \in (IF ServerGone(c) THEN {TRUE, FALSE} ELSE {FALSE}) :
          IF raises
          THEN /\ ClientClose(c, "exception")
               /\ UNCHANGED <<rx, awaiting>>
          ELSE /\ rx' = [rx EXCEPT ![c] = IF ServerGone(c) THEN @
                                         ELSE @ \o Message(cmd, text)]
               /\ awaiting' = [awaiting EXCEPT ![c] =
                                  Append(@, [command |-> cmd, bytes |-> Utf8Encode(text)])]
               /\ cpc' = [cpc EXCEPT ![c] = "AWAIT_HEADER"]
               /\ UNCHANGED <<csock, peer, cexit, cdata, cpayload_len>>

\* A quit that sends QUIT and then waits in _receive_message for a reply.
UserQuitAwaitsReply(c) ==
    /\ cpc[c] = "PROMPT"
    /\ ~ServerGone(c)
    /\ rx' = [rx EXCEPT ![c] = @ \o Message(COMMAND_QUIT, <<>>)]
    /\ cpc' = [cpc EXCEPT ![c] = "AWAIT_HEADER"]
    /\ response' = [response EXCEPT ![c] = None]
    /\ gotFrame' = [gotFrame EXCEPT ![c] = FALSE]
    /\ UNCHANGED <<serverVars, tx, peer, harnessVars, csock, cdata, cpayload_len,
                   creq, cexit>>

\* The user types "quit": QUIT is sent, the loop is left, finally closes.
UserQuit(c) ==
    /\ cpc[c] = "PROMPT"
    /\ rx' = [rx EXCEPT ![c] = IF ServerGone(c) THEN @
                               ELSE @ \o Message(COMMAND_QUIT, <<>>)]
    /\ ClientClose(c, "quit")
    /\ UNCHANGED <<serverVars, tx, harnessVars, response, gotFrame, creq>>

\* The user types anything else: "Invalid command", and the prompt again.
UserOther(c) ==
    /\ cpc[c] = "PROMPT"
    /\ UNCHANGED vars

\* One client_socket.recv of _recv_all(HEADER_SIZE) in _receive_message.
ClientRecvHeader(c) ==
    /\ cpc[c] = "AWAIT_HEADER"
    /\ UNCHANGED <<serverVars, rx, peer, nsent, csock, creq, cexit>>
    /\ IF tx[c] = <<>>
       THEN \* recv returns b'' once the server has closed; until then it blocks
            /\ ServerGone(c)
            /\ response' = [response EXCEPT ![c] = None]
            /\ cpc' = [cpc EXCEPT ![c] = "CHECK"]
            /\ cdata' = [cdata EXCEPT ![c] = <<>>]
            /\ UNCHANGED <<tx, awaiting, cpayload_len, gotFrame>>
       ELSE \E k \in 1..Min(HEADER_SIZE - Len(cdata[c]), Len(tx[c])) :
            LET header_data == cdata[c] \o SubSeq(tx[c], 1, k)
                h == Unpack(header_data)
            IN  /\ tx' = [tx EXCEPT ![c] = SubSeq(tx[c], k + 1, Len(tx[c]))]
                /\ IF Len(header_data) < HEADER_SIZE
                   THEN /\ cdata' = [cdata EXCEPT ![c] = header_data]
                        /\ UNCHANGED <<cpc, cpayload_len, response, gotFrame, awaiting>>
                   ELSE IF h.payload_len > 0
                   THEN /\ cdata' = [cdata EXCEPT ![c] = <<>>]
                        /\ cpayload_len' = [cpayload_len EXCEPT ![c] = h.payload_len]
                        /\ cpc' = [cpc EXCEPT ![c] = "AWAIT_PAYLOAD"]
                        /\ UNCHANGED <<response, gotFrame, awaiting>>
                   ELSE \* return "" for a zero-length payload
                        /\ cdata' = [cdata EXCEPT ![c] = <<>>]
                        /\ response' = [response EXCEPT ![c] = ZeroLengthResult]
                        /\ gotFrame' = [gotFrame EXCEPT ![c] = TRUE]
                        /\ awaiting' = [awaiting EXCEPT ![c] = Tail(@)]
                        /\ cpc' = [cpc EXCEPT ![c] = "CHECK"]
                        /\ UNCHANGED cpayload_len

\* One client_socket.recv of _recv_all(payload_len) in _receive_message; the
\* full payload is decoded, and a UnicodeDecodeError (no socket.error) leaves
\* the loop through "except Exception" and finally.
ClientRecvPayload(c) ==
    /\ cpc[c] = "AWAIT_PAYLOAD"
    /\ UNCHANGED <<serverVars, rx, nsent, creq>>
    /\ IF tx[c] = <<>>
       THEN /\ ServerGone(c)
            /\ response' = [response EXCEPT ![c] = None]
            /\ cpc' = [cpc EXCEPT ![c] = "CHECK"]
            /\ cdata' = [cdata EXCEPT ![c] = <<>>]
            /\ cpayload_len' = [cpayload_len EXCEPT ![c] = -1]
            /\ UNCHANGED <<tx, awaiting, gotFrame, csock, peer, cexit>>
       ELSE \E k \in 1..Min(cpayload_len[c] - Len(cdata[c]), Len(tx[c])) :
            LET payload_data == cdata[c] \o SubSeq(tx[c], 1, k)
                text == Utf8Decode(payload_data)
            IN  /\ tx' = [tx EXCEPT ![c] = SubSeq(tx[c], k + 1, Len(tx[c]))]
                /\ IF Len(payload_data) < cpayload_len[c]
                   THEN /\ cdata' = [cdata EXCEPT ![c] = payload_data]
                        /\ UNCHANGED <<cpc, cpayload_len, response, gotFrame,
                                       awaiting, csock, peer, cexit>>
                   ELSE /\ gotFrame' = [gotFrame EXCEPT ![c] = TRUE]
                        /\ awaiting' = [awaiting EXCEPT ![c] = Tail(@)]
                        /\ IF text = None
                           THEN /\ ClientClose(c, "exception")
                                /\ UNCHANGED response
                           ELSE /\ response' = [response EXCEPT ![c] = text]
                                /\ cpc' = [cpc EXCEPT ![c] = "CHECK"]
                                /\ cdata' = [cdata EXCEPT ![c] = <<>>]
                                /\ cpayload_len' = [cpayload_len EXCEPT ![c] = -1]
                                /\ UNCHANGED <<csock, peer, cexit>>

\* "if response:" prints the response and prompts again; else the session
\* reports that it received no valid response, breaks, and finally closes.
ClientCheck(c) ==
    /\ cpc[c] = "CHECK"
    /\ UNCHANGED <<serverVars, rx, tx, harnessVars, response, gotFrame, creq>>
    /\ IF Truthy(response[c])
       THEN /\ cpc' = [cpc EXCEPT ![c] = "PROMPT"]
            /\ UNCHANGED <<csock, peer, cexit, cdata, cpayload_len>>
       ELSE ClientClose(c, "no_response")

\* KeyboardInterrupt at the prompt, in a recv or before the response is
\* printed: QUIT is sent, finally closes.
ClientInterrupt(c) ==
    /\ cpc[c] \in {"PROMPT", "AWAIT_HEADER", "AWAIT_PAYLOAD", "CHECK"}
    /\ rx' = [rx EXCEPT ![c] = IF ServerGone(c) THEN @
                               ELSE @ \o Message(COMMAND_QUIT, <<>>)]
    /\ ClientClose(c, "interrupt")
    /\ UNCHANGED <<serverVars, tx, harnessVars, response, gotFrame, creq>>

Client(c) ==
    \/ ClientConnect(c)
    \/ \E cmd \in {COMMAND_ECHO, COMMAND_REVERSE} : \E text \in Texts :
           UserRequest(c, cmd, text)
    \/ UserQuit(c)
    \/ UserOther(c)
    \/ ClientRecvHeader(c)
    \/ ClientRecvPayload(c)
    \/ ClientCheck(c)
    \/ ClientInterrupt(c)

\* The smaller menu of the peers when several connections are served at once:
\* ECHO and REVERSE of "ab" and of bytes that are no UTF-8.
ConcFrames ==
    {f \in Frames : f.command \in {COMMAND_ECHO, COMMAND_REVERSE}
                     /\ f.bytes \in {<<97, 98>>, <<169>>}}

\* The frames a peer may cut short.
Cuttable(menu) == {f \in menu : f.command = COMMAND_ECHO}

Server(c) ==
    \/ Accept(c)
    \/ RecvHeader(c)
    \/ RecvPayload(c)
    \/ Dispatch(c)
    \/ Respond(c)

Peer(c, menu) ==
    \/ PeerConnect(c)
    \/ \E f \in menu : PeerSend(c, f)
    \/ \E f \in Cuttable(menu) : \E k \in 1..(HEADER_SIZE + 1) : PeerSendPartial(c, f, k)
    \/ PeerClose(c)
    \/ PeerReset(c)
    \/ PeerRecv(c)

\* One connection, its peer sending any frame.
Next == Server(1) \/ Peer(1, Frames)

Spec == Init /\ [][Next]_vars

\* Every connection, each peer sending frames of the smaller menu.
NextConc == \E c \in Conns : Server(c) \/ Peer(c, ConcFrames)

SpecConc == Init /\ [][NextConc]_vars

\* One connection, its peer sending any command with "ab" or with bytes that
\* are no UTF-8; the handler thread and the accept loop are scheduled fairly:
\* a step of theirs that stays possible is taken.  Nothing is asked of the
\* peer.
LiveFrames == {f \in Frames : f.bytes \in {<<97, 98>>, <<169>>}}

NextLive == Server(1) \/ Peer(1, LiveFrames)

SpecFair == Init /\ [][NextLive]_vars /\ WF_vars(Server(1))

\* One connection, its peer sending ECHO and REVERSE of texts that are each
\* other's reversal: "ab" and "ba", "a" U+00E9 and U+00E9 "a".
RevFrames ==
    [command : {COMMAND_ECHO, COMMAND_REVERSE},
     bytes : {<<97, 98>>, <<98, 97>>, <<97, 195, 169>>, <<195, 169, 97>>}]

NextRev == Server(1) \/ Peer(1, RevFrames)

SpecRev == Init /\ [][NextRev]_vars

\* A server other than server.py at the far end of a session: it answers a
\* request with an ECHO frame of any payload, valid UTF-8 or not.
ResponseFrames == [command : {COMMAND_ECHO}, bytes : Payloads]

ForeignRespond(c, f) ==
    /\ hpc[c] = "NONE"
    /\ cpc[c] = "AWAIT_HEADER"
    /\ rx[c] # <<>>
    /\ rx' = [rx EXCEPT ![c] = <<>>]
    /\ tx' = [tx EXCEPT ![c] = @ \o Wire(f)]
    /\ UNCHANGED <<serverVars, peer, harnessVars, clientVars>>

\* That server closes its end of the connection.
ForeignClose(c) ==
    /\ hpc[c] = "NONE"
    /\ peer[c] # "idle"
    /\ hpc' = [hpc EXCEPT ![c] = "KILLED"]
    /\ backlog' = backlog \ {c}
    /\ rx' = [rx EXCEPT ![c] = <<>>]
    /\ UNCHANGED <<listening, sockOpen, data, command, payload_len, payload,
                   response_payload, exitReason, nIgnored>>
    /\ UNCHANGED <<tx, peer, harnessVars, clientVars>>

\* One client session facing that server.
NextClientAny ==
    \/ Client(1)
    \/ \E f \in ResponseFrames : ForeignRespond(1, f)
    \/ ForeignClose(1)

SpecClientAny == Init /\ [][NextClientAny]_vars

\* One connection driven by a client session.
NextClient == Server(1) \/ Client(1) \/ ServerShutdown

SpecClient == Init /\ [][NextClient]_vars

(* ----------------------------------------------------- what the peer expects *)
\* The complete frames of a byte stream, in order (an incomplete tail is left out).
RECURSIVE StreamFrames(_)
StreamFrames(stream) ==
    IF HasFrame(stream)
    THEN <<FirstFrame(stream)>> \o StreamFrames(AfterFirstFrame(stream))
    ELSE <<>>

\* A frame on the wire as the request it carries.
AsRequest(frame) ==
    [command |-> frame[1], bytes |-> SubSeq(frame, HEADER_SIZE + 1, Len(frame))]

\* The characters of a text from the last to the first.
RECURSIVE LastToFirst(_)
LastToFirst(text) ==
    IF text = <<>> THEN <<>> ELSE LastToFirst(Tail(text)) \o <<Head(text)>>

\* The response frame the protocol owes a request that expects one.
ExpectedResponse(req) ==
    LET body == IF req.command = COMMAND_ECHO THEN req.bytes
                ELSE Utf8Encode(LastToFirst(Utf8Decode(req.bytes)))
    IN  <<COMMAND_ECHO, 0, 0, 0, Len(body)>> \o body

ExpectedResponses(reqs) == [i \in 1..Len(reqs) |-> ExpectedResponse(reqs[i])]

\* The requests of a byte stream that expect a response.
Answerable(stream) ==
    LET frames == StreamFrames(stream)
    IN  SelectSeq([i \in 1..Len(frames) |-> AsRequest(frames[i])], ExpectsResponse)

\* The bytes handler c has received and not yet acted upon, with what is
\* still on the wire behind them.
Unserved(c) ==
    IF hpc[c] = "AWAITING_PAYLOAD"
    THEN Pack(command[c], payload_len[c]) \o data[c] \o rx[c]
    ELSE IF hpc[c] = "DISPATCHING"
    THEN Message(command[c], payload[c]) \o rx[c]
    ELSE data[c] \o rx[c]

\* The response handler c is about to send.
Owed(c) ==
    IF hpc[c] = "RESPONDING"
    THEN <<Message(COMMAND_ECHO, response_payload[c])>>
    ELSE <<>>

(* ------------------------------------------------------------------ claims *)
\* C1: on a connection, whatever frames the peer sends, the response to
\* request N is sent in full before any byte of request N+1 is read, and the
\* responses leave in the order of the ECHO/REVERSE requests: while the
\* handler runs, the responses the peer still waits for are exactly those on
\* the wire, then the one being sent, then those of the requests not yet read.
C1_ResponseBeforeNextRead ==
    \A c \in Conns :
        (hpc[c] \notin {"NONE", "CLOSED"} /\ peer[c] # "reset")
        => ExpectedResponses(awaiting[c])
             = StreamFrames(tx[c]) \o Owed(c) \o ExpectedResponses(Answerable(Unserved(c)))

\* Two different requests were pipelined; the first response is on the wire
\* and the second is about to be sent.
C1_Witness ==
    /\ Len(awaiting[1]) = 2
    /\ awaiting[1][1] # awaiting[1][2]
    /\ hpc[1] = "RESPONDING"
    /\ StreamFrames(tx[1]) = <<ExpectedResponse(awaiting[1][1])>>

\* The stream towards the peer holds whole frames only.
WholeFrames(stream) ==
    LET frames == StreamFrames(stream)
        RECURSIVE Cat(_)
        Cat(fs) == IF fs = <<>> THEN <<>> ELSE Head(fs) \o Cat(Tail(fs))
    IN  Cat(frames) = stream

IsPrefix(s, t) == Len(s) <= Len(t) /\ SubSeq(t, 1, Len(s)) = s

\* C2: with several connections served at once, under every interleaving,
\* what is on the wire towards a peer is made of the responses to that peer's
\* own requests, in the order it sent them, and nothing of another connection.
C2_OwnResponsesInOrder ==
    \A c \in Conns :
        /\ WholeFrames(tx[c])
        /\ IsPrefix(StreamFrames(tx[c]), ExpectedResponses(awaiting[c]))

\* Connection 1 holds two different responses in order while connection 2,
\* served at the same time, holds a response of its own.
C2_Witness ==
    /\ Len(StreamFrames(tx[1])) = 2
    /\ StreamFrames(tx[1])[1] # StreamFrames(tx[1])[2]
    /\ Len(StreamFrames(tx[2])) = 1
    /\ StreamFrames(tx[2])[1] # StreamFrames(tx[1])[1]
    /\ sockOpen[1] /\ sockOpen[2]

\* The handler has unpacked a QUIT header, or has left its loop on QUIT.
QuitSeen(c) == command[c] = COMMAND_QUIT \/ exitReason[c] = "quit"

\* C3: once the handler has received QUIT it sends nothing on that connection,
\* neither a reply to QUIT nor anything later; the only place it goes from the
\* dispatch of QUIT is CLOSED, with its socket closed, and it stays there.
C3_QuitNoResponseAndClose ==
    [][\A c \in Conns :
          QuitSeen(c) =>
             /\ Len(tx'[c]) <= Len(tx[c])
             /\ hpc'[c] \in {hpc[c], "DISPATCHING", "CLOSED"}
             /\ (hpc[c] \in {"DISPATCHING", "CLOSED"} /\ hpc'[c] # hpc[c])
                   => hpc'[c] = "CLOSED"
             /\ hpc'[c] = "CLOSED" => ~sockOpen'[c]]_vars

\* The handler left on QUIT with the socket closed; an ECHO or REVERSE request
\* sent behind the QUIT has no response on the wire.
C3_Witness ==
    /\ exitReason[1] = "quit"
    /\ hpc[1] = "CLOSED" /\ ~sockOpen[1]
    /\ awaiting[1] # <<>>
    /\ tx[1] = <<>>

\* Handler c holds, received in full, a frame of a command outside {1,2,3}.
UnknownFrameReceived(c) ==
    /\ command[c] \notin {-1, COMMAND_ECHO, COMMAND_REVERSE, COMMAND_QUIT}
    /\ peer[c] # "reset"
    /\ \/ hpc[c] = "DISPATCHING"
       \/ hpc[c] = "AWAITING_PAYLOAD" /\ Len(data[c]) + Len(rx[c]) >= payload_len[c]

\* C4 (as claimed): a frame with a command outside {1,2,3}, whatever its
\* payload, produces no response and does not close the connection: the
\* handler goes on to the header read with its socket open.
C4_UnknownCommandInert ==
    [][\A c \in Conns :
          UnknownFrameReceived(c)
          => /\ sockOpen'[c]
             /\ Len(tx'[c]) <= Len(tx[c])
             /\ hpc'[c] \in {hpc[c], "DISPATCHING", "AWAITING_HEADER"}]_vars

\* C5 (as claimed): a complete frame whose payload is no valid UTF-8 does not
\* make the handler terminate or close the connection.
C5_InvalidUtf8KeepsConnection ==
    \A c \in Conns : ~(hpc[c] = "CLOSED" /\ exitReason[c] = "UnicodeDecodeError")

\* C6 (as claimed): the handler's loop ends only because the peer disconnected
\* (short read of header or payload), the peer sent QUIT, or a read or write
\* on the socket failed.
C6_OnlyThreeWaysOut ==
    \A c \in Conns :
        hpc[c] = "CLOSED"
        => exitReason[c] \in {"disconnect_header", "disconnect_payload", "quit",
                              "ConnectionResetError", "BrokenPipeError"}

\* C7: an ECHO request with an empty payload is answered with the frame of
\* command ECHO and length 0; reading that frame gives the client the empty
\* text, reading a closed stream gives it None, and the two differ.
C7_ZeroLengthIsNotDisconnection ==
    \A c \in Conns :
        /\ (/\ creq[c] = [command |-> COMMAND_ECHO, payload |-> <<>>]
            /\ cpc[c] = "AWAIT_HEADER" /\ cdata[c] = <<>> /\ tx[c] # <<>>)
              => tx[c] = <<COMMAND_ECHO, 0, 0, 0, 0>>
        /\ (/\ creq[c] = [command |-> COMMAND_ECHO, payload |-> <<>>]
            /\ cpc[c] = "CHECK" /\ gotFrame[c])
              => response[c] = <<>> /\ response[c] # None
        /\ (cpc[c] = "CHECK" /\ ~gotFrame[c]) => response[c] = None

\* The client has read the response to ECHO "" and holds the empty text.
C7_Witness ==
    /\ creq[1] = [command |-> COMMAND_ECHO, payload |-> <<>>]
    /\ cpc[1] = "CHECK" /\ gotFrame[1]
    /\ response[1] = <<>>

\* C8 (as claimed): the session stops with "did not receive a valid response"
\* only when the read of the response failed; after a complete response
\* frame, an empty one included, it stays open.
C8_StopsOnlyOnLostConnection ==
    \A c \in Conns : cexit[c] = "no_response" => ~gotFrame[c]

\* C9: when the peer closes after part of a header or part of the announced
\* payload, the read does not block and does not raise: the handler's next
\* step is there, it sends nothing, leaves the loop as disconnected, and
\* closes its socket; a handler that has left sends nothing more.
C9_ShortReadEndsHandler ==
    /\ [](\A c \in Conns :
             (hpc[c] \in {"AWAITING_HEADER", "AWAITING_PAYLOAD"}
                /\ rx[c] = <<>> /\ peer[c] = "closed")
             => ENABLED (RecvHeader(c) \/ RecvPayload(c)))
    /\ [][\A c \in Conns :
             /\ (/\ hpc[c] \in {"AWAITING_HEADER", "AWAITING_PAYLOAD"}
                 /\ rx[c] = <<>> /\ peer[c] = "closed"
                 /\ hpc'[c] # hpc[c])
                   => /\ hpc'[c] = "CLOSED"
                      /\ ~sockOpen'[c]
                      /\ tx'[c] = tx[c]
                      /\ exitReason'[c] = IF hpc[c] = "AWAITING_HEADER"
                                          THEN "disconnect_header"
                                          ELSE "disconnect_payload"
             /\ hpc[c] = "CLOSED" => (hpc'[c] = "CLOSED" /\ Len(tx'[c]) <= Len(tx[c]))]_vars

\* One frame was sent, cut inside its header, and the peer closed: the
\* handler has left as disconnected, its socket closed, nothing sent.
C9_Witness ==
    /\ nsent = 1 /\ awaiting[1] = <<>> /\ nIgnored[1] = 0
    /\ peer[1] = "closed"
    /\ hpc[1] = "CLOSED" /\ ~sockOpen[1]
    /\ exitReason[1] = "disconnect_header"
    /\ tx[1] = <<>>

\* C10: an ECHO request carrying text s is answered with one response frame,
\* of command ECHO and with payload s unchanged: the i-th frame on the wire
\* answers the i-th request waited for, and when that is an ECHO it is the
\* ECHO header with the length of s followed by the bytes of s.
C10_EchoIdentity ==
    \A c \in Conns :
        /\ WholeFrames(tx[c])
        /\ Len(StreamFrames(tx[c])) <= Len(awaiting[c])
        /\ \A i \in 1..Len(StreamFrames(tx[c])) :
              awaiting[c][i].command = COMMAND_ECHO
              => StreamFrames(tx[c])[i]
                   = <<COMMAND_ECHO, 0, 0, 0, Len(awaiting[c][i].bytes)>>
                     \o awaiting[c][i].bytes

\* The response to ECHO of U+00E9 and the response to ECHO "ab" are on the wire.
C10_Witness ==
    /\ Len(awaiting[1]) = 2 /\ Len(StreamFrames(tx[1])) = 2
    /\ awaiting[1][1] = [command |-> COMMAND_ECHO, bytes |-> <<195, 169>>]
    /\ awaiting[1][2] = [command |-> COMMAND_ECHO, bytes |-> <<97, 98>>]

\* The payload bytes of a frame.
PayloadOf(frame) == SubSeq(frame, HEADER_SIZE + 1, Len(frame))

\* C11: a REVERSE request carrying text s is answered with one frame whose
\* command code is ECHO (1, not 2) and whose payload is s with its characters
\* from the last to the first; and a REVERSE request that carries the payload
\* of the response to an earlier REVERSE request is answered with the text of
\* that earlier request.
C11_ReverseAndBack ==
    \A c \in Conns :
        LET frames == StreamFrames(tx[c])
        IN  /\ WholeFrames(tx[c])
            /\ Len(frames) <= Len(awaiting[c])
            /\ \A i \in 1..Len(frames) :
                  awaiting[c][i].command = COMMAND_REVERSE
                  => /\ frames[i][1] = COMMAND_ECHO /\ frames[i][1] # COMMAND_REVERSE
                     /\ Unpack(SubSeq(frames[i], 1, HEADER_SIZE)).payload_len
                           = Len(PayloadOf(frames[i]))
                     /\ Utf8Decode(PayloadOf(frames[i]))
                           = LastToFirst(Utf8Decode(awaiting[c][i].bytes))
            /\ \A i, j \in 1..Len(frames) :
                  (/\ awaiting[c][i].command = COMMAND_REVERSE
                   /\ awaiting[c][j].command = COMMAND_REVERSE
                   /\ awaiting[c][j].bytes = PayloadOf(frames[i]))
                  => PayloadOf(frames[j]) = awaiting[c][i].bytes

\* REVERSE of "a" U+00E9 was answered with U+00E9 "a", and REVERSE of that
\* answer with "a" U+00E9 again.
C11_Witness ==
    /\ Len(awaiting[1]) = 2 /\ Len(StreamFrames(tx[1])) = 2
    /\ awaiting[1][1] = [command |-> COMMAND_REVERSE, bytes |-> <<97, 195, 169>>]
    /\ awaiting[1][2] = [command |-> COMMAND_REVERSE, bytes |-> <<195, 169, 97>>]
    /\ PayloadOf(StreamFrames(tx[1])[1]) = awaiting[1][2].bytes
    /\ PayloadOf(StreamFrames(tx[1])[2]) = awaiting[1][1].bytes

\* Payload lengths at the edges of each byte of the length field (up to the
\* largest integer the model checker represents, 2^31 - 1).
CodecLengths ==
    {0, 1, 2, 255, 256, 257, 65535, 65536, 16777215, 16777216, 2147483647}

\* The text the protocol answers the session's request with.
ExpectedText(c) ==
    IF creq[c].command = COMMAND_ECHO THEN creq[c].payload
    ELSE LastToFirst(creq[c].payload)

\* C12: for the commands 1, 2, 3 and a payload of n bytes, the frame written
\* by _send_message is 5 + n bytes, the five bytes unpack to the command and
\* n, and the n bytes behind them are the payload: what the handler unpacks
\* and reads is what the client packed, and what the client unpacks and reads
\* is what the handler packed.
C12_FrameRoundTrip ==
    /\ \A cmd \in {COMMAND_ECHO, COMMAND_REVERSE, COMMAND_QUIT} :
       \A n \in CodecLengths :
           /\ Len(Pack(cmd, n)) = HEADER_SIZE
           /\ Unpack(Pack(cmd, n)) = [command |-> cmd, payload_len |-> n]
    /\ \A c \in Conns :
        LET sent == Utf8Encode(creq[c].payload)
            unread == hpc[c] \in {"NONE", "AWAITING_HEADER"} /\ data[c] = <<>>
                      /\ rx[c] # <<>>
        IN  /\ (cpc[c] = "AWAIT_HEADER" /\ unread)
                  => /\ Len(rx[c]) = HEADER_SIZE + Len(sent)
                     /\ Unpack(SubSeq(rx[c], 1, HEADER_SIZE))
                           = [command |-> creq[c].command, payload_len |-> Len(sent)]
                     /\ PayloadOf(rx[c]) = sent
            /\ (cexit[c] = "quit" /\ unread)
                  => /\ Len(rx[c]) = HEADER_SIZE
                     /\ Unpack(rx[c]) = [command |-> COMMAND_QUIT, payload_len |-> 0]
            /\ hpc[c] = "AWAITING_PAYLOAD"
                  => command[c] = creq[c].command /\ payload_len[c] = Len(sent)
            /\ hpc[c] = "DISPATCHING"
                  => IF command[c] = COMMAND_QUIT
                     THEN payload[c] = <<>> /\ cexit[c] \in {"quit", "interrupt"}
                     ELSE command[c] = creq[c].command /\ payload[c] = creq[c].payload
            /\ cpc[c] = "AWAIT_PAYLOAD"
                  => cpayload_len[c] = Len(Utf8Encode(ExpectedText(c)))
            /\ (cpc[c] = "CHECK" /\ gotFrame[c]) => response[c] = ExpectedText(c)

\* The handler holds, unpacked and read in full, the REVERSE request of U+00E9
\* (two bytes on the wire) that the client packed.
C12_Witness ==
    /\ creq[1] = [command |-> COMMAND_REVERSE, payload |-> <<233>>]
    /\ hpc[1] = "DISPATCHING"
    /\ command[1] = COMMAND_REVERSE /\ payload[1] = <<233>>

\* The session has sent a request and has not finished with its response.
Waiting(c) == cpc[c] \in {"AWAIT_HEADER", "AWAIT_PAYLOAD", "CHECK"}

\* C13 (as claimed): after sending an ECHO or REVERSE request the session
\* sends no further frame until it has received one complete response frame
\* or observed disconnection.
C13_NoFrameWhileWaiting ==
    [][\A c \in Conns :
          cpc[c] \in {"AWAIT_HEADER", "AWAIT_PAYLOAD"}
          => Len(rx'[c]) <= Len(rx[c])]_vars

\* C13 (amended): the session never has more than one request outstanding:
\* at the prompt every request has had its one response read and no response
\* is on the wire; and the only frame the session sends while it waits is the
\* one QUIT of a user interruption, after which it has left its loop with
\* the socket closed.
C13_OneRequestOutstanding ==
    /\ [](\A c \in Conns :
             /\ Len(awaiting[c]) <= 1
             /\ cpc[c] = "PROMPT" => (awaiting[c] = <<>> /\ tx[c] = <<>>))
    /\ [][\A c \in Conns :
             (Waiting(c) /\ Len(rx'[c]) > Len(rx[c]))
             => /\ rx'[c] = rx[c] \o <<COMMAND_QUIT, 0, 0, 0, 0>>
                /\ cpc'[c] = "DONE" /\ ~csock'[c]
                /\ cexit'[c] = "interrupt"]_vars

\* The session was interrupted while its ECHO "ab" was outstanding: the QUIT
\* is on the wire behind the request, and the session has closed.
C13_Witness ==
    /\ cexit[1] = "interrupt" /\ cpc[1] = "DONE"
    /\ Len(awaiting[1]) = 1
    /\ rx[1] = <<COMMAND_ECHO, 0, 0, 0, 2, 97, 98, COMMAND_QUIT, 0, 0, 0, 0>>

\* C14: at the prompt quit is always possible; the step that takes it puts
\* exactly one frame on the wire, QUIT with length 0 (nothing when the server
\* is gone already), reads nothing, and leaves the session out of its loop
\* with the socket closed; afterwards the session neither reads nor sends.
C14_QuitLeavesWithoutReading ==
    /\ [](\A c \in Conns : cpc[c] = "PROMPT" => ENABLED UserQuit(c))
    /\ [][\A c \in Conns :
             /\ (cpc[c] = "PROMPT" /\ Len(rx'[c]) > Len(rx[c])
                    /\ rx'[c][Len(rx[c]) + 1] = COMMAND_QUIT)
                  => /\ rx'[c] = rx[c] \o <<COMMAND_QUIT, 0, 0, 0, 0>>
                     /\ tx'[c] = tx[c]
                     /\ cpc'[c] = "DONE" /\ ~csock'[c]
                     /\ cexit'[c] \in {"quit", "interrupt"}
             /\ (cexit[c] = "none" /\ cexit'[c] = "quit")
                  => /\ cpc[c] = "PROMPT" /\ cpc'[c] = "DONE" /\ ~csock'[c]
                     /\ tx'[c] = tx[c]
                     /\ rx'[c] = IF ServerGone(c) THEN rx[c]
                                 ELSE rx[c] \o <<COMMAND_QUIT, 0, 0, 0, 0>>
             /\ cexit[c] = "quit"
                  => /\ cpc'[c] = "DONE" /\ ~csock'[c] /\ cexit'[c] = "quit"
                     /\ tx'[c] = tx[c]
                     /\ Len(rx'[c]) <= Len(rx[c])]_vars

\* The session has quit and closed; the handler has read the QUIT and closed
\* its end without sending anything.
C14_Witness ==
    /\ cexit[1] = "quit" /\ cpc[1] = "DONE" /\ ~csock[1]
    /\ exitReason[1] = "quit" /\ hpc[1] = "CLOSED"
    /\ tx[1] = <<>> /\ rx[1] = <<>>

\* The exceptions that end a handler.
Failures == {"ConnectionResetError", "BrokenPipeError", "UnicodeDecodeError"}

\* What the server holds of connection d.
HandlerState(d) ==
    <<hpc[d], sockOpen[d], data[d], command[d], payload_len[d], payload[d],
      response_payload[d], exitReason[d], nIgnored[d], rx[d], tx[d]>>

\* C15: the step in which a handler fails closes that handler's socket and
\* nothing else: the listener still listens with the same queue, and the
\* state, socket and streams of every other connection are what they were;
\* and whatever has happened to other connections, a handler with a frame to
\* dispatch, a response to send or bytes to read can take its next step.
C15_FailureContained ==
    /\ [](/\ listening
          /\ \A d \in Conns :
                /\ hpc[d] \in {"DISPATCHING", "RESPONDING"}
                      => ENABLED (Dispatch(d) \/ Respond(d))
                /\ (hpc[d] \in {"AWAITING_HEADER", "AWAITING_PAYLOAD"} /\ rx[d] # <<>>)
                      => ENABLED (RecvHeader(d) \/ RecvPayload(d)))
    /\ [][\A c \in Conns :
             (exitReason[c] = "none" /\ exitReason'[c] \in Failures)
             => /\ hpc'[c] = "CLOSED" /\ ~sockOpen'[c]
                /\ listening' /\ backlog' = backlog
                /\ \A d \in Conns \ {c} : HandlerState(d)' = HandlerState(d)]_vars

\* Handler 1 has failed on a payload that is no UTF-8 and closed its socket;
\* handler 2 is sending a response on its own open socket.
C15_Witness ==
    /\ exitReason[1] = "UnicodeDecodeError" /\ hpc[1] = "CLOSED" /\ ~sockOpen[1]
    /\ hpc[2] = "RESPONDING" /\ sockOpen[2]
    /\ listening

\* C16: whatever the handlers do, blocked in a read on a silent peer
\* included, a connection waiting in the listen queue can be accepted; the
\* accept step starts that connection's handler with its socket open, leaves
\* the listener listening, and touches no other connection.
C16_AcceptNeverWaits ==
    /\ [](\A c \in Conns : (listening /\ c \in backlog) => ENABLED Accept(c))
    /\ [][\A c \in Conns :
             (c \in backlog /\ c \notin backlog')
             => /\ hpc[c] = "NONE" /\ hpc'[c] = "AWAITING_HEADER" /\ sockOpen'[c]
                /\ listening'
                /\ \A d \in Conns \ {c} : HandlerState(d)' = HandlerState(d)]_vars

\* Handler 1 waits for the rest of a payload its silent peer never sends;
\* connection 2 has been accepted and holds a response on the wire.
C16_Witness ==
    /\ hpc[1] = "AWAITING_PAYLOAD" /\ rx[1] = <<>> /\ peer[1] = "stalled"
    /\ sockOpen[2] /\ Len(StreamFrames(tx[2])) = 1
    /\ listening

\* C17 (as claimed): after a complete response frame whose payload is no
\* valid UTF-8 the session is still in its loop with its socket open.
C17_InvalidResponseKeepsSession ==
    \A c \in Conns :
        (gotFrame[c] /\ response[c] = None) => (csock[c] /\ cpc[c] # "DONE")

\* The frames the peers send, as bytes, and the beginnings of the frames
\* they cut short.
SentFrames == {Wire(f) : f \in Frames}
IsCutFrame(stream) ==
    \E f \in Cuttable(Frames) :
        Len(stream) < Len(Wire(f)) /\ stream = SubSeq(Wire(f), 1, Len(stream))

\* The stream starts at a frame boundary: it is made of frames as the peer
\* sent them, the last one possibly cut short.
RECURSIVE Aligned(_)
Aligned(stream) ==
    IF stream = <<>> THEN TRUE
    ELSE IF HasFrame(stream) /\ FirstFrame(stream) \in SentFrames
    THEN Aligned(AfterFirstFrame(stream))
    ELSE IsCutFrame(stream)

\* C18: the handler takes 5 + length bytes off the stream for every frame,
\* whatever its command: with a frame read in full (about to be dispatched or
\* answered) the wire starts at the next frame; what it holds of a frame in
\* progress, put back before the wire, is the stream as the peer sent it; and
\* after an unknown command it is back at the header read with nothing held
\* and the wire untouched.
C18_FrameAlignment ==
    /\ [](\A c \in Conns :
             (hpc[c] \notin {"NONE", "CLOSED", "KILLED"} /\ peer[c] # "reset")
             => /\ Aligned(Unserved(c))
                /\ hpc[c] \in {"DISPATCHING", "RESPONDING"} => Aligned(rx[c])
                /\ hpc[c] = "AWAITING_HEADER" => Len(data[c]) < HEADER_SIZE
                /\ hpc[c] = "AWAITING_PAYLOAD" => Len(data[c]) < payload_len[c])
    /\ [][\A c \in Conns :
             (hpc[c] = "DISPATCHING" /\ hpc'[c] = "AWAITING_HEADER")
             => (rx'[c] = rx[c] /\ data'[c] = <<>>)]_vars

\* The handler has read an unknown command with its payload "ab" in full, and
\* the wire starts with the whole frame the peer sent behind it.
C18_Witness ==
    /\ hpc[1] = "DISPATCHING"
    /\ command[1] = 99 /\ payload[1] = <<97, 98>>
    /\ HasFrame(rx[1]) /\ FirstFrame(rx[1]) \in SentFrames

\* The ways a handler's loop ends.
ExitReasons ==
    {"disconnect_header", "disconnect_payload", "quit"} \cup Failures

\* C19: a handler that has ended, whichever way, has closed its socket, and a
\* socket is open only while its handler runs; the step that ends the handler
\* closes the socket; and an ended handler stays ended, takes nothing more
\* off the wire and puts nothing more on it.
C19_EveryExitCloses ==
    /\ [](\A c \in Conns :
             /\ hpc[c] = "CLOSED" <=> exitReason[c] \in ExitReasons
             /\ hpc[c] # "CLOSED" => exitReason[c] = "none"
             /\ sockOpen[c] <=> hpc[c] \in {"AWAITING_HEADER", "AWAITING_PAYLOAD",
                                            "DISPATCHING", "RESPONDING"})
    /\ [][\A c \in Conns :
             /\ (hpc[c] # "CLOSED" /\ hpc'[c] = "CLOSED")
                   => (sockOpen[c] /\ ~sockOpen'[c])
             /\ hpc[c] = "CLOSED"
                   => /\ hpc'[c] = "CLOSED" /\ ~sockOpen'[c]
                      /\ exitReason'[c] = exitReason[c]
                      /\ data'[c] = <<>>
                      /\ rx'[c] \in {rx[c], <<>>}
                      /\ Len(tx'[c]) <= Len(tx[c])]_vars

\* The handler's send failed on a peer that had closed: it has ended on the
\* exception with its socket closed.
C19_Witness ==
    /\ exitReason[1] = "BrokenPipeError"
    /\ hpc[1] = "CLOSED" /\ ~sockOpen[1]

\* The responses handler c owes: the one it is sending, then those of the
\* requests it has received or that are on the wire.
Unanswered(c) == Owed(c) \o ExpectedResponses(Answerable(Unserved(c)))

\* C20: with the handler scheduled fairly, it does not stay in DISPATCHING or
\* RESPONDING; the responses it owes for frames sent in full are all sent,
\* unless it closes the connection first; and each one is sent once: the
\* requests the peer waits on are as many as the responses on the wire and
\* the responses still owed together.
C20_EveryRequestAnswered ==
    /\ \A c \in Conns :
          (hpc[c] \in {"DISPATCHING", "RESPONDING"})
             ~> (hpc[c] \notin {"DISPATCHING", "RESPONDING"})
    /\ \A c \in Conns :
          (Unanswered(c) # <<>>) ~> (Unanswered(c) = <<>> \/ hpc[c] = "CLOSED")
    /\ [](\A c \in Conns :
             (hpc[c] \notin {"NONE", "CLOSED"} /\ peer[c] # "reset")
             => Len(awaiting[c]) = Len(StreamFrames(tx[c])) + Len(Unanswered(c)))

\* Three requests were sent in full on the open connection; the handler has
\* sent the three responses, owes none, and waits for the next header.
C20_Witness ==
    /\ hpc[1] = "AWAITING_HEADER" /\ sockOpen[1] /\ peer[1] = "open"
    /\ Len(awaiting[1]) = 3 /\ Len(StreamFrames(tx[1])) = 3
    /\ Unanswered(1) = <<>>

====
